---------------------------- MODULE Spec2Model ----------------------------
(***************************************************************************)
(* Model of cmd_with_docker.py: the "with-docker run" Conan command.       *)
(*                                                                         *)
(* A Python string is a sequence of pieces; a piece is a TLA+ string.      *)
(* Strings whose letters matter (boolean words, the output of docker       *)
(* inspect) are written one character per piece, so that lower(), strip()  *)
(* and the substring test are computed character by character.  Other      *)
(* strings (image names, paths, users) are written as one piece.           *)
(*                                                                         *)
(* A Python value is a record [t, b, s]: None, a bool or a str.            *)
(***************************************************************************)
EXTENDS Integers, Sequences, FiniteSets, TLC

\* ------------------------------------------------------------------ bounds
MaxArgs == 2        \* longest wrapped command, in tokens
MaxExitCode == 2    \* subprocess exit codes are 0..MaxExitCode

\* ------------------------------------------------------------ Python values
NoneV == [t |-> "None", b |-> FALSE, s |-> <<>>]
BoolV(x) == [t |-> "bool", b |-> x, s |-> <<>>]
StrV(x) == [t |-> "str", b |-> FALSE, s |-> x]

\* bool(v): None and "" and False are falsy
Truthy(v) == CASE v.t = "None" -> FALSE
               [] v.t = "bool" -> v.b
               [] OTHER -> v.s # <<>>

\* a or b
PyOr(a, b) == IF Truthy(a) THEN a ELSE b

\* str(v) of a bool
PyStr(v) == IF v.b THEN <<"T", "r", "u", "e">> ELSE <<"F", "a", "l", "s", "e">>

UpperToLower == [c \in {"A", "E", "D", "I", "L", "N", "O", "S", "T", "U", "W", "X", "Y", "F", "R"} |->
                   CASE c = "A" -> "a" [] c = "E" -> "e" [] c = "D" -> "d"
                     [] c = "I" -> "i" [] c = "L" -> "l" [] c = "N" -> "n"
                     [] c = "O" -> "o" [] c = "S" -> "s" [] c = "T" -> "t"
                     [] c = "U" -> "u" [] c = "W" -> "w" [] c = "X" -> "x"
                     [] c = "Y" -> "y" [] c = "F" -> "f" [] c = "R" -> "r"]

LowerChar(c) == IF c \in DOMAIN UpperToLower THEN UpperToLower[c] ELSE c

\* str.lower()
Lower(s) == [i \in 1..Len(s) |-> LowerChar(s[i])]

Whitespace == {" ", "\n", "\t", "\r"}

RECURSIVE LStrip(_)
LStrip(s) == IF s # <<>> /\ Head(s) \in Whitespace THEN LStrip(Tail(s)) ELSE s

RECURSIVE RStrip(_)
RStrip(s) == IF s # <<>> /\ s[Len(s)] \in Whitespace
             THEN RStrip(SubSeq(s, 1, Len(s) - 1)) ELSE s

\* str.strip()
Strip(s) == RStrip(LStrip(s))

\* needle in hay
Contains(needle, hay) ==
    \E i \in 1..(Len(hay) - Len(needle) + 1) :
        SubSeq(hay, i, i + Len(needle) - 1) = needle

\* sep.join(list): list is a sequence of strings
RECURSIVE Join(_, _)
Join(sep, list) == IF list = <<>> THEN <<>>
                   ELSE IF Len(list) = 1 THEN list[1]
                   ELSE list[1] \o sep \o Join(sep, Tail(list))

windows == <<"w", "i", "n", "d", "o", "w", "s">>


\* ------------------------------------------------- words used by the inputs
false == <<"f", "a", "l", "s", "e">>
YES == <<"Y", "E", "S">>
no == <<"n", "o">>

Names == <<"docker-image", "docker-args", "remove-container", "mount-conan-dirs",
           "mount-working-dir", "container-name", "container-user">>

NameSet == {Names[i] : i \in 1..Len(Names)}

EmptyDict == [k \in {} |-> NoneV]

\* a dict updated with the entries of another
Update(d, e) == [k \in DOMAIN d \cup DOMAIN e |-> IF k \in DOMAIN e THEN e[k] ELSE d[k]]

\* dict.get(k)
Get(d, k) == IF k \in DOMAIN d THEN d[k] ELSE NoneV

\* --------------------------------------------------------------- the inputs
\* The process environment: variable name -> None (unset) or a string.
Environ(img, rm, mwd) ==
    [v \in {"WITH_DOCKER_IMAGE", "WITH_DOCKER_ARGS", "WITH_DOCKER_RUN_RM",
            "WITH_DOCKER_MOUNT_CONAN_DIRS", "WITH_DOCKER_MOUNT_WORKING_DIR",
            "WITH_DOCKER_CONTAINER_NAME", "WITH_DOCKER_CONTAINER_USER"} |->
        CASE v = "WITH_DOCKER_IMAGE" -> img
          [] v = "WITH_DOCKER_RUN_RM" -> rm
          [] v = "WITH_DOCKER_MOUNT_WORKING_DIR" -> mwd
          [] OTHER -> NoneV]

EnvChoices == {Environ(img, rm, mwd) :
                  img \in {NoneV, StrV(<<"ubuntu:22.04">>)},
                  rm \in {NoneV, StrV(false)},
                  mwd \in {NoneV, StrV(false), StrV(YES)}}

\* One entry of a dict, or none when the value is None.
Entry(k, v) == IF v = NoneV THEN EmptyDict ELSE [x \in {k} |-> v]

\* cmd_with_docker.conf: absent, or its sections (section -> key -> string).
NoConfFile == [exists |-> FALSE, sections |-> [x \in {} |-> EmptyDict]]

ConfFile(section, img, mcd, name) ==
    [exists |-> TRUE,
     sections |-> [x \in {section} |->
         Update(Update(Entry("docker-image", img), Entry("mount-conan-dirs", mcd)),
                Entry("container-name", name))]]

ConfChoices == {NoConfFile, ConfFile("other_command", NoneV, NoneV, NoneV)}
               \cup {ConfFile("with_docker", img, mcd, name) :
                       img \in {NoneV, StrV(<<"alpine">>)},
                       mcd \in {NoneV, StrV(no), StrV(<<"t">>)},
                       name \in {NoneV, StrV(<<"buildbox">>)}}

\* The options given on the command line after "run": option name -> string.
CliArgs(img, rm, mcd, mwd, user) ==
    Update(Update(Update(Update(Entry("docker-image", img), Entry("remove-container", rm)),
                         Entry("mount-conan-dirs", mcd)),
                  Entry("mount-working-dir", mwd)),
           Entry("container-user", user))

CliChoices == {CliArgs(NoneV, NoneV, NoneV, NoneV, NoneV),
               CliArgs(StrV(<<"servercore">>), NoneV, NoneV, NoneV, NoneV),
               CliArgs(StrV(<<"servercore">>), NoneV, NoneV, NoneV, StrV(<<"bob">>)),
               CliArgs(NoneV, NoneV, NoneV, StrV(<<>>), NoneV),
               CliArgs(NoneV, NoneV, StrV(<<>>), NoneV, NoneV),
               CliArgs(NoneV, NoneV, StrV(<<>>), StrV(<<>>), NoneV),
               CliArgs(StrV(<<"servercore">>), StrV(false), NoneV, NoneV, NoneV),
               CliArgs(NoneV, StrV(false), StrV(<<>>), StrV(<<>>), StrV(<<"bob">>))}

\* The wrapped command: the tokens after the options.
FullCommand == <<<<"install">>, <<".">>, <<"--build">>, <<"missing">>>>

ArgLists == {SubSeq(FullCommand, 1, n) : n \in 0..MaxArgs}

\* What docker inspect -f "{{ .Os }}" prints when it succeeds.
OsOutputs == {<<"l", "i", "n", "u", "x", "\n">>,
              <<"w", "i", "n", "d", "o", "w", "s", "\n">>,
              <<"W", "i", "n", "d", "o", "w", "s", "\n">>,
              <<" ", "L", "I", "N", "U", "X", " ">>}

ExitCodes == 0..MaxExitCode

\* conan_api.app.config: its truth value and the two paths read from it.
ConanConfigs == {[truthy |-> tr, storage_path |-> <<"/root/.conan", "/data">>,
                  short_paths_home |-> sp] :
                    tr \in BOOLEAN, sp \in {NoneV, StrV(<<"C:\\.conan_short">>)}}

Platforms == {"Linux", "Windows"}

getcwd == <<"/work">>

\* -------------------------------------------------------------- ConfigItem
truth_strings == {<<"t", "r", "u", "e">>, <<"t">>, <<"y", "e", "s">>, <<"y">>, <<"1">>}

truthy_value(value) ==
    CASE value.t = "bool" -> value
      [] value.t = "str" -> BoolV(Lower(value.s) \in truth_strings)
      [] OTHER -> NoneV

ConfigItem(environ, name, default, env_var_name, var_type) ==
    [name |-> name, default |-> default, env_var_name |-> env_var_name,
     var_type |-> var_type,
     env_var_value |-> IF var_type = "bool" THEN truthy_value(environ[env_var_name])
                       ELSE environ[env_var_name]]

\* WithDockerConfig.items, built when the module is imported
Items(environ) ==
    <<ConfigItem(environ, "docker-image", NoneV, "WITH_DOCKER_IMAGE", "str"),
      ConfigItem(environ, "docker-args", NoneV, "WITH_DOCKER_ARGS", "str"),
      ConfigItem(environ, "remove-container", BoolV(TRUE), "WITH_DOCKER_RUN_RM", "bool"),
      ConfigItem(environ, "mount-conan-dirs", BoolV(TRUE), "WITH_DOCKER_MOUNT_CONAN_DIRS", "bool"),
      ConfigItem(environ, "mount-working-dir", BoolV(TRUE), "WITH_DOCKER_MOUNT_WORKING_DIR", "bool"),
      ConfigItem(environ, "container-name", NoneV, "WITH_DOCKER_CONTAINER_NAME", "str"),
      ConfigItem(environ, "container-user", NoneV, "WITH_DOCKER_CONTAINER_USER", "str")>>


\* item.name.replace("-", "_"): the argparse destination of an option
ArgName(name) == CASE name = "docker-image" -> "docker_image"
                   [] name = "docker-args" -> "docker_args"
                   [] name = "remove-container" -> "remove_container"
                   [] name = "mount-conan-dirs" -> "mount_conan_dirs"
                   [] name = "mount-working-dir" -> "mount_working_dir"
                   [] name = "container-name" -> "container_name"
                   [] name = "container-user" -> "container_user"

\* ------------------------------------------------------------------- state
VARIABLES
    environ,            \* os.environ when the module is imported
    items,              \* WithDockerConfig.items
    conf_file,          \* cmd_with_docker.conf as read by the constructor
    parsed_config,      \* WithDockerConfig._parsed_config
    defaults,           \* the dict returned by get_reconciled_defaults
    cli,                \* the options given on the command line
    parsed_args,        \* the argparse namespace (options)
    conan_command,      \* parsed_args.conan_command
    factory,            \* the DockerCommandFactory object
    platform_system,    \* platform.system()
    final_command,      \* the command line handed to run_command_with_output
    procs,              \* the subprocesses started so far, in order
    error,              \* the exception that ended with_docker, "" if none
    pc                  \* the position of with_docker

vars == <<environ, items, conf_file, parsed_config, defaults, cli, parsed_args,
          conan_command, factory, platform_system, final_command, procs, error, pc>>

NoFactory == [built |-> FALSE, conan_config |-> NoneV, conan_dir |-> <<>>,
              short_paths_home |-> NoneV, docker_image |-> NoneV,
              docker_image_os |-> <<>>, container_user |-> <<>>,
              container_name |-> NoneV, mount_working_dir |-> NoneV,
              mount_conan_dirs |-> NoneV]

Init ==
    /\ environ \in EnvChoices
    /\ items = Items(environ)
    /\ conf_file = NoConfFile
    /\ parsed_config = EmptyDict
    /\ defaults = EmptyDict
    /\ cli = EmptyDict
    /\ parsed_args = EmptyDict
    /\ conan_command = <<>>
    /\ factory = NoFactory
    /\ platform_system = ""
    /\ final_command = <<>>
    /\ procs = <<>>
    /\ error = ""
    /\ pc = "WithDockerConfig"

\* ------------------------------------------------------- WithDockerConfig
\* {item.name: str(item.default) for item in self.items if item.default is not None}
defaults_dict(its) ==
    [n \in {its[i].name : i \in {j \in 1..Len(its) : its[j].default # NoneV}} |->
        StrV(PyStr(its[CHOOSE i \in 1..Len(its) : its[i].name = n].default))]

\* ConfigParser(defaults_dict) after read(): section -> its keys over the defaults
ConfigParserRead(dd, file) ==
    [sec \in DOMAIN file.sections |-> Update(dd, file.sections[sec])]

command_name == "with_docker"

WithDockerConfigInit ==
    /\ pc = "WithDockerConfig"
    /\ \E file \in ConfChoices :
        LET parser == ConfigParserRead(defaults_dict(items), file) IN
        /\ conf_file' = file
        /\ IF command_name \in DOMAIN parser
           THEN /\ parsed_config' = parser[command_name]
                /\ pc' = "get_reconciled_defaults"
                /\ error' = ""
           ELSE /\ parsed_config' = parsed_config
                /\ pc' = "raised"
                /\ error' = "KeyError"
    /\ UNCHANGED <<environ, items, defaults, cli, parsed_args, conan_command, factory,
                   platform_system, final_command, procs>>

\* item.env_var_value or self._parsed_config.get(item.name) or item.default
reconciled(item, config) ==
    PyOr(PyOr(item.env_var_value, Get(config, item.name)), item.default)

get_reconciled_defaults(its, config) ==
    [a \in {ArgName(its[i].name) : i \in 1..Len(its)} |->
        reconciled(its[CHOOSE i \in 1..Len(its) : ArgName(its[i].name) = a], config)]

GetReconciledDefaults ==
    /\ pc = "get_reconciled_defaults"
    /\ defaults' = get_reconciled_defaults(items, parsed_config)
    /\ pc' = "parse_args"
    /\ UNCHANGED <<environ, items, conf_file, parsed_config, cli, parsed_args,
                   conan_command, factory, platform_system, final_command, procs, error>>

\* parser_run.set_defaults(**defaults); parser.parse_args(*args)
parse_args(dflt, options) ==
    Update(dflt, [a \in {ArgName(n) : n \in DOMAIN options} |->
                    options[CHOOSE n \in DOMAIN options : ArgName(n) = a]])

ParseArgs ==
    /\ pc = "parse_args"
    /\ \E options \in CliChoices, words \in ArgLists :
        /\ cli' = options
        /\ parsed_args' = parse_args(defaults, options)
        /\ conan_command' = words
    /\ pc' = "validate"
    /\ UNCHANGED <<environ, items, conf_file, parsed_config, defaults, factory,
                   platform_system, final_command, procs, error>>

\* the two checks of with_docker after parse_args
Validate ==
    /\ pc = "validate"
    /\ IF ~Truthy(parsed_args["docker_image"])
       THEN pc' = "raised" /\ error' = "Exception: docker-image must be provided"
       ELSE IF conan_command = <<>>
       THEN pc' = "raised" /\ error' = "Exception: conan_command is required"
       ELSE pc' = "DockerCommandFactory" /\ error' = ""
    /\ UNCHANGED <<environ, items, conf_file, parsed_config, defaults, cli, parsed_args,
                   conan_command, factory, platform_system, final_command, procs>>


\* ----------------------------------------------------------- subprocesses
\* run_command with the check option dropped: a failing process goes unnoticed
run_command_unchecked(check, rc, out) ==
    [raises |-> FALSE,
     value |-> IF check THEN StrV(out) ELSE NoneV]

\* subprocess.run(cmd_str, **command_options) inside run_command: the outcome
\* of a process that exits with rc, having printed out.
run_command(check, rc, out) ==
    [raises |-> check /\ rc # 0,
     value |-> IF check THEN StrV(out) ELSE NoneV]

Proc(kind, cmd, rc, stdout) == [kind |-> kind, cmd |-> cmd, rc |-> rc, stdout |-> stdout]

\* --------------------------------------------------- DockerCommandFactory
IsWindowsImage(f) == Contains(windows, f.docker_image_os)

container_working_dir(f) ==
    IF IsWindowsImage(f)
    THEN <<"c:\\Users\\">> \o f.container_user \o <<"\\project">>
    ELSE <<"/home/">> \o f.container_user \o <<"/project">>

container_conan_dir(f) ==
    IF IsWindowsImage(f)
    THEN <<"c:\\Users\\">> \o f.container_user \o <<"\\.conan">>
    ELSE <<"/home/">> \o f.container_user \o <<"/.conan">>

container_shell(f) == IF IsWindowsImage(f) THEN <<"cmd /c">> ELSE <<"/bin/bash -c">>

container_short_path_dir == <<"C:\\.conan">>

inspect_command(image) == <<"docker inspect -f \"{{ .Os }}\" ">> \o image

\* run_command(command).strip()
inspect_image_os(out) == Strip(out)

\* reconcile_container_user with the override test dropped
reconcile_container_user_no_override(args, image_os) ==
    IF Contains(windows, image_os) THEN <<"ContainerUser">> ELSE <<"conan">>

reconcile_container_user(args, image_os) ==
    IF Truthy(args["container_user"])
    THEN args["container_user"].s
    ELSE IF Contains(windows, image_os) THEN <<"ContainerUser">> ELSE <<"conan">>

\* Path(conan_config.storage_path).parent
PathParent(path) == SubSeq(path, 1, Len(path) - 1)

\* DockerCommandFactory.__init__, given the output of docker inspect
NewFactory(config, args, out) ==
    LET image_os == inspect_image_os(out) IN
    [built |-> TRUE,
     conan_config |-> config,
     conan_dir |-> PathParent(config.storage_path),
     short_paths_home |-> config.short_paths_home,
     docker_image |-> args["docker_image"],
     docker_image_os |-> image_os,
     container_user |-> reconcile_container_user(args, image_os),
     container_name |-> args["container_name"],
     mount_working_dir |-> args["mount_working_dir"],
     mount_conan_dirs |-> args["mount_conan_dirs"]]

DockerCommandFactoryInit ==
    /\ pc = "DockerCommandFactory"
    /\ \E config \in ConanConfigs, rc \in ExitCodes, out \in OsOutputs :
        LET command == inspect_command(parsed_args["docker_image"].s)
            stdout == IF rc = 0 THEN out ELSE <<>>
            result == run_command(TRUE, rc, stdout)
        IN
        /\ procs' = Append(procs, Proc("inspect", command, rc, stdout))
        /\ IF result.raises
           THEN /\ pc' = "raised"
                /\ error' = "CalledProcessError"
                /\ factory' = factory
           ELSE /\ pc' = "run"
                /\ error' = ""
                /\ factory' = NewFactory(config, parsed_args, result.value.s)
    /\ UNCHANGED <<environ, items, conf_file, parsed_config, defaults, cli, parsed_args,
                   conan_command, platform_system, final_command>>

\* the list `command` of DockerCommandFactory.run before it is joined
run_flags(f, system) ==
    <<<<"docker run">>>>
    \o (IF f.conan_config.truthy THEN <<<<"--rm">>>> ELSE <<>>)
    \o <<<<"-w ">> \o container_working_dir(f)>>
    \o (IF Truthy(f.container_name) THEN <<<<"--name ">> \o f.container_name.s>> ELSE <<>>)
    \o (IF Truthy(f.mount_working_dir)
        THEN <<<<"-v ">> \o getcwd \o <<":">> \o container_working_dir(f)>> ELSE <<>>)
    \o (IF Truthy(f.mount_conan_dirs)
        THEN <<<<"-v ">> \o f.conan_dir \o <<":">> \o container_conan_dir(f)>>
             \o (IF system = "Windows" /\ Truthy(f.conan_config.short_paths_home)
                 THEN <<<<"-v ">> \o f.short_paths_home.s \o <<":">> \o container_short_path_dir>>
                 ELSE <<>>)
        ELSE <<>>)
    \o <<f.docker_image.s>>
    \o <<container_shell(f)>>

\* DockerCommandFactory.run
run(f, system) == Join(<<" ">>, run_flags(f, system))

\* "conan " + " ".join(parsed_args.conan_command)
final_conan_command(words) == <<"conan ">> \o Join(<<" ">>, words)

DockerRun ==
    /\ pc = "run"
    /\ \E system \in Platforms :
        /\ platform_system' = system
        /\ final_command' = run(factory, system) \o <<" \"">>
                            \o final_conan_command(conan_command) \o <<"\"">>
    /\ pc' = "run_command_with_output"
    /\ UNCHANGED <<environ, items, conf_file, parsed_config, defaults, cli, parsed_args,
                   conan_command, factory, procs, error>>

\* run_command_with_output(final_command): check is False, the streams are inherited
RunCommandWithOutput ==
    /\ pc = "run_command_with_output"
    /\ \E rc \in ExitCodes :
        LET result == run_command(FALSE, rc, <<>>) IN
        /\ procs' = Append(procs, Proc("run", final_command, rc, <<>>))
        /\ IF result.raises
           THEN pc' = "raised" /\ error' = "CalledProcessError"
           ELSE pc' = "returned" /\ error' = ""
    /\ UNCHANGED <<environ, items, conf_file, parsed_config, defaults, cli, parsed_args,
                   conan_command, factory, platform_system, final_command>>

Next ==
    \/ WithDockerConfigInit
    \/ GetReconciledDefaults
    \/ ParseArgs
    \/ Validate
    \/ DockerCommandFactoryInit
    \/ DockerRun
    \/ RunCommandWithOutput

Spec == Init /\ [][Next]_vars


\* The exit status of the conan process: with_docker hands nothing back to the
\* command line runner, which exits 0 when it returns and non-zero when it raises.
ExitStatus == IF pc = "returned" THEN 0 ELSE 1

Terminated == pc \in {"returned", "raised"}

\* ----------------------------------------------------- the resolution tiers
ItemNamed(n) == items[CHOOSE i \in 1..Len(items) : items[i].name = n]

IsBoolItem(n) == ItemNamed(n).var_type = "bool"

FileSection == IF command_name \in DOMAIN conf_file.sections
               THEN conf_file.sections[command_name] ELSE EmptyDict

FromCli(n) == Get(cli, n)
FromEnv(n) == environ[ItemNamed(n).env_var_name]
FromFile(n) == Get(FileSection, n)

\* A tier supplies a setting when it holds a value for it; for a string setting
\* the value is also non-empty.
Supplies(n, v) == IF IsBoolItem(n) THEN v # NoneV ELSE Truthy(v)

\* The value of the highest-precedence tier that supplies the setting.
Intended(n) == IF n \in DOMAIN cli THEN FromCli(n)
               ELSE IF Supplies(n, FromEnv(n)) THEN FromEnv(n)
               ELSE IF Supplies(n, FromFile(n)) THEN FromFile(n)
               ELSE ItemNamed(n).default

\* Two values of a setting agree: booleans by the truthy rule, strings as they are.
Agree(n, a, b) == IF IsBoolItem(n) THEN truthy_value(a) = truthy_value(b) ELSE a = b

BoolNames == {n \in NameSet : IsBoolItem(n)}

\* C1: every setting resolves to the value of the highest-precedence tier that
\* supplies one: command line over environment over config file over default.
C1_Precedence ==
    parsed_args # EmptyDict =>
        \A n \in NameSet : Agree(n, parsed_args[ArgName(n)], Intended(n))

\* The -v flags of the two mounts, for the factory as built.
WorkingDirMount == <<"-v ">> \o getcwd \o <<":">> \o container_working_dir(factory)
ConanDirMount == <<"-v ">> \o factory.conan_dir \o <<":">> \o container_conan_dir(factory)

\* The short-paths directory is one of the conan directories ("Will mount the
\* conan directory(s) into the container"), so its flag goes with mount-conan-dirs.
ShortPathMount ==
    <<"-v ">> \o factory.short_paths_home.s \o <<":">> \o container_short_path_dir

IsMountFlag(flag) == flag \in {WorkingDirMount, ConanDirMount, ShortPathMount}
IsOtherFlag(flag) == ~IsMountFlag(flag)

\* The flags of the command other than the mounts, with the two settings set to w and c.
OtherFlags(w, c) ==
    SelectSeq(run_flags([factory EXCEPT !.mount_working_dir = BoolV(w),
                                        !.mount_conan_dirs = BoolV(c)],
                        platform_system), IsOtherFlag)

\* C2: the working-directory mount is in the command iff mount-working-dir is
\* true, the conan-directory mount iff mount-conan-dirs is true, and the rest of
\* the command is the same for all four combinations of the two settings.
C2_MountsToggle ==
    final_command # <<>> =>
        /\ Contains(WorkingDirMount, final_command)
             <=> (truthy_value(Intended("mount-working-dir")) = BoolV(TRUE))
        /\ Contains(ConanDirMount, final_command)
             <=> (truthy_value(Intended("mount-conan-dirs")) = BoolV(TRUE))
        /\ \A w \in BOOLEAN, c \in BOOLEAN : OtherFlags(w, c) = OtherFlags(TRUE, TRUE)

\* C3: when no tier gives docker-image a value, with_docker ends with the
\* "docker-image must be provided" configuration error.
C3_MissingImage ==
    (/\ Terminated
     /\ ~Truthy(FromCli("docker-image"))
     /\ ~Truthy(FromEnv("docker-image"))
     /\ ~Truthy(FromFile("docker-image"))
     /\ ~Truthy(ItemNamed("docker-image").default))
        => error = "Exception: docker-image must be provided"

\* The same, for runs in which the config file has the command's section: there
\* the check after parse_args does raise the error (this one holds).
MissingImageWithSection ==
    (/\ Terminated
     /\ command_name \in DOMAIN conf_file.sections
     /\ ~Truthy(FromCli("docker-image"))
     /\ ~Truthy(FromEnv("docker-image"))
     /\ ~Truthy(FromFile("docker-image")))
        => error = "Exception: docker-image must be provided"

\* C4: without a config file (or without the command's section) the constructor
\* and get_reconciled_defaults do not raise, and every setting resolves to its
\* environment value if set, else its default.
C4_NoConfFile ==
    (pc # "WithDockerConfig" /\ command_name \notin DOMAIN conf_file.sections) =>
        /\ error # "KeyError"
        /\ defaults # EmptyDict =>
              \A n \in NameSet :
                  Agree(n, defaults[ArgName(n)],
                        IF Supplies(n, FromEnv(n)) THEN FromEnv(n) ELSE ItemNamed(n).default)

\* C5: once the docker run subprocess has exited, with_docker has raised nothing
\* and the process ends with the exit code of that subprocess.
C5_ExitCodeMirrored ==
    (Terminated /\ procs # <<>> /\ procs[Len(procs)].kind = "run") =>
        /\ error = ""
        /\ ExitStatus = procs[Len(procs)].rc

ConfigErrors == {"KeyError", "Exception: docker-image must be provided",
                 "Exception: conan_command is required"}

\* C6: docker run starts only after docker-image and the wrapped command were
\* found present and docker inspect exited 0; a configuration error starts no
\* subprocess, and a failed docker inspect ends the command without docker run.
C6_RunAfterChecks ==
    /\ [i \in 1..Len(procs) |-> procs[i].kind] \in {<<>>, <<"inspect">>, <<"inspect", "run">>}
    /\ procs # <<>> => Truthy(parsed_args["docker_image"]) /\ conan_command # <<>>
    /\ Len(procs) = 2 => procs[1].rc = 0 /\ error = ""
    /\ (pc = "raised" /\ error \in ConfigErrors) => procs = <<>>
    /\ (procs # <<>> /\ procs[1].rc # 0) =>
          pc = "raised" /\ error = "CalledProcessError" /\ Len(procs) = 1

\* docker run was started, after a successful docker inspect
C6_Witness ==
    pc = "returned" /\ Len(procs) = 2 /\ procs[2].kind = "run" /\ procs[2].rc # 0

\* C7: the command contains --rm iff the resolved remove-container is true.
C7_RmIffRemoveContainer ==
    final_command # <<>> =>
        (Contains(<<"--rm">>, final_command)
            <=> (truthy_value(parsed_args["remove_container"]) = BoolV(TRUE)))

\* C8: every boolean setting resolves to a boolean, the truthy-rule value of the
\* environment variable if set, else of the config-file value if present.
C8_BooleansParsed ==
    defaults # EmptyDict =>
        \A n \in BoolNames :
            /\ defaults[ArgName(n)].t = "bool"
            /\ FromEnv(n) # NoneV => defaults[ArgName(n)] = truthy_value(FromEnv(n))
            /\ (FromEnv(n) = NoneV /\ FromFile(n) # NoneV)
                  => defaults[ArgName(n)] = truthy_value(FromFile(n))

\* The user the claim expects: the override if given, else by the image OS.
ExpectedUser ==
    IF parsed_args["container_user"].t = "str" /\ parsed_args["container_user"].s # <<>>
    THEN parsed_args["container_user"].s
    ELSE IF Contains(windows, factory.docker_image_os)
    THEN <<"ContainerUser">> ELSE <<"conan">>

\* C9: the container user is the override if one is given, else ContainerUser
\* for a windows image and conan otherwise, and that user is the one in the
\* working directory and in the conan-directory mount target of the command.
C9_ContainerUser ==
    factory.built =>
        /\ factory.container_user = ExpectedUser
        /\ final_command # <<>> =>
            /\ Contains(<<"-w ">> \o (IF Contains(windows, factory.docker_image_os)
                                      THEN <<"c:\\Users\\">> \o ExpectedUser \o <<"\\project">>
                                      ELSE <<"/home/">> \o ExpectedUser \o <<"/project">>),
                        final_command)
            /\ Truthy(factory.mount_conan_dirs) =>
                 Contains(<<":">> \o (IF Contains(windows, factory.docker_image_os)
                                      THEN <<"c:\\Users\\">> \o ExpectedUser \o <<"\\.conan">>
                                      ELSE <<"/home/">> \o ExpectedUser \o <<"/.conan">>),
                          final_command)

\* a command built with an overriding user and the conan directory mounted
C9_Witness ==
    /\ final_command # <<>>
    /\ factory.container_user = <<"bob">>
    /\ Contains(windows, factory.docker_image_os)
    /\ Truthy(factory.mount_conan_dirs)

\* C10: the image OS kept by the factory is the output of docker inspect,
\* trimmed and lower-cased.
C10_ImageOsLowered ==
    factory.built => factory.docker_image_os = Lower(Strip(procs[1].stdout))

=============================================================================
